---------------------------- MODULE Spec2Model ----------------------------
(***************************************************************************)
(* A model of the ucrimp firmware: the HX711 load-cell driver              *)
(* (src/src/lib/hx711_spi.py), the median helper                           *)
(* (src/src/lib/calculations.py) and the BLE weight device with its three  *)
(* cooperative tasks (src/src/lib/device.py, src/src/main.py).             *)
(*                                                                         *)
(* The specifications share the variables:                                 *)
(*   CodecSpec   raw_to_kg, the DataPoint codec and the decoding of        *)
(*               read(), each called once with any argument;               *)
(*   DriverSpec  the HX711 class under any sequence of calls of its        *)
(*               public methods;                                           *)
(*   Spec        the program of main.py: start(), the advertise, the       *)
(*               measurement and the GATT events task, the BLE peer and    *)
(*               stop().  FairSpec is Spec with the fairness of the        *)
(*               asyncio scheduler.                                        *)
(* A step of a task is the code it runs from one suspension point (await)  *)
(* to the next: scheduling is cooperative, so that code is atomic.         *)
(***************************************************************************)
EXTENDS Integers, Sequences, FiniteSets

VARIABLES
    hx,                 \* the HX711 object: is_powered_down, clock, clock_pin, filtered
    drv,                \* DriverSpec: what the last driver call did
    led,                \* Esp32HX711.led pin value
    connected_device,   \* UCrimpDevice.connected_device (None or the connection)
    is_running,         \* UCrimpDevice.is_running (asyncio.Event)
    measurement_status, \* UCrimpDevice.measurement_status
    start_time,         \* UCrimpDevice.start_time
    tare_offset,        \* UCrimpDevice.tare_offset, in half counts (value * 2)
    shutdown_requested, \* UCrimpDevice.shutdown_requested (asyncio.Event)
    link,               \* BLE stack: a central is connected
    control_point,      \* control point characteristic: the unread write, or NoWrite
    cancelled,          \* tasks with a CancelledError pending at their await
    pcMain,             \* main(): where start()/stop() stand
    pcAdv,              \* advertise(): the await it is suspended at
    pcMeas,             \* measurement_task()
    pcGatt,             \* gatt_events_task()
    last                \* what the last step of the program did (observation only)

vars == <<hx, drv, led, connected_device, is_running, measurement_status,
          start_time, tare_offset, shutdown_requested, link, control_point,
          cancelled, pcMain, pcAdv, pcMeas, pcGatt, last>>

driverVars == <<hx, drv>>

deviceVars == <<led, connected_device, is_running, measurement_status,
                start_time, tare_offset, shutdown_requested, link,
                control_point, cancelled, pcMain, pcAdv, pcMeas, pcGatt, last>>

-----------------------------------------------------------------------------
(* Small helpers.  An operator that uses an intermediate result several    *)
(* times binds it as the element of a one-element set (CHOOSE r \in          *)
(* {F(x) : x \in {e}} : TRUE is F(e)): TLC then evaluates e once.            *)

\* bit i of byte b
Bit(b, i) == (b \div (2 ^ i)) % 2

\* b & 0x55: bits 6, 4, 2 and 0 of b
And55(b) == 64 * Bit(b, 6) + 16 * Bit(b, 4) + 4 * Bit(b, 2) + Bit(b, 0)

\* the sign bit taken where it stands, without the shift
SignBitShifted_NoShift(result) == IF Bit(result, 23) = 1 THEN 8388608 ELSE 0

\* (result & 0x800000) << 1, for 0 <= result < 2^24
SignBitShifted(result) == IF Bit(result, 23) = 1 THEN 16777216 ELSE 0

-----------------------------------------------------------------------------
(* HX711 (hx711_spi.py).                                                   *)

\* the three clock patterns written to MOSI: every 1 bit is one clock pulse
clock_25 == <<170, 170, 170, 170, 170, 170, 128>>

clock_26 == <<170, 170, 170, 170, 170, 170, 160>>

clock_27 == <<170, 170, 170, 170, 170, 170, 168>>

\* clock pulses a pattern produces: its 1 bits
PulsesOfByte(b) == Bit(b, 7) + Bit(b, 6) + Bit(b, 5) + Bit(b, 4)
                   + Bit(b, 3) + Bit(b, 2) + Bit(b, 1) + Bit(b, 0)

RECURSIVE PulseCount(_)
PulseCount(w) ==
    IF w = <<>> THEN 0 ELSE PulsesOfByte(Head(w)) + PulseCount(Tail(w))

\* self.lookup, indexed from 0 in the source (lookup[k] is Lookup[k + 1])
Lookup ==
    <<0, 1, 0, 0, 2, 3, 0, 0, 0, 0, 0, 0,
      0, 0, 0, 0, 4, 5, 0, 0, 6, 7, 0, 0,
      0, 0, 0, 0, 0, 0, 0, 0, 0, 0, 0, 0,
      0, 0, 0, 0, 0, 0, 0, 0, 0, 0, 0, 0,
      0, 0, 0, 0, 0, 0, 0, 0, 0, 0, 0, 0,
      0, 0, 0, 0, 8, 9, 0, 0, 10, 11, 0, 0,
      0, 0, 0, 0, 0, 0, 0, 0, 12, 13, 0, 0,
      14, 15>>

\* range(500): the polls of the data pin read() makes at most
PollLimit == 500

\* for i in range(6): result = (result << 4) + self.lookup[self.in_data[i] & 0x55]
RECURSIVE Decode(_, _, _)
Decode(in_data, i, result) ==
    IF i > 6 THEN result
    ELSE Decode(in_data, i + 1, result * 16 + Lookup[And55(in_data[i]) + 1])

\* what a driver call returns: the object after it, the exception it raised
\* ("none" for a return), its value, and what it did to the hardware
Outcome(h, exc, ret, polls, xfers, pins) ==
    [hx |-> h, exc |-> exc, ret |-> ret, polls |-> polls, xfers |-> xfers,
     pins |-> pins]

\* read() without its check of the power state
read_NoPowerCheck(h, inp) ==
    IF inp.first_low > PollLimit
    THEN Outcome(h, "OSError:timeout", 0, PollLimit, 0, 0)
    ELSE LET result == Decode(inp.data, 1, 0)
         IN  Outcome(h, "none", result - SignBitShifted(result),
                     inp.first_low, 1, 0)

\* read() polling once more than range(500) does
read_PollsOnceMore(h, inp) ==
    IF h.is_powered_down
    THEN Outcome(h, "OSError:powered_down", 0, 0, 0, 0)
    ELSE IF inp.first_low > PollLimit + 1
    THEN Outcome(h, "OSError:timeout", 0, PollLimit + 1, 0, 0)
    ELSE LET result == Decode(inp.data, 1, 0)
         IN  Outcome(h, "none", result - SignBitShifted(result),
                     inp.first_low, 1, 0)

\* read(): inp.first_low is the first poll at which the data pin reads 0
\* (PollLimit + 1: it reads 1 in all the polls); inp.data is what the
\* transfer samples into in_data
read(h, inp) ==
    IF h.is_powered_down
    THEN Outcome(h, "OSError:powered_down", 0, 0, 0, 0)
    ELSE IF inp.first_low > PollLimit
    THEN Outcome(h, "OSError:timeout", 0, PollLimit, 0, 0)
    ELSE LET result == Decode(inp.data, 1, 0)
         IN  Outcome(h, "none", result - SignBitShifted(result),
                     inp.first_low, 1, 0)

power_down(h) ==
    IF h.is_powered_down
    THEN Outcome(h, "none", 0, 0, 0, 0)
    ELSE Outcome([h EXCEPT !.clock_pin = 1, !.is_powered_down = TRUE],
                 "none", 0, 0, 0, 1)

\* power_up() clearing the flag only after a dummy read that succeeds
power_up_FlagAfterRead(h, inp) ==
    IF ~h.is_powered_down
    THEN Outcome(h, "none", 0, 0, 0, 0)
    ELSE LET r == read([h EXCEPT !.clock_pin = 0, !.is_powered_down = FALSE],
                       inp)
         IN  IF r.exc = "none" THEN Outcome(r.hx, "none", 0, r.polls, r.xfers, 1)
             ELSE Outcome([h EXCEPT !.clock_pin = 0], "none", 0, r.polls,
                          r.xfers, 1)

\* power_up(): the dummy read's OSError is caught
power_up(h, inp) ==
    IF ~h.is_powered_down
    THEN Outcome(h, "none", 0, 0, 0, 0)
    ELSE LET r == read([h EXCEPT !.clock_pin = 0, !.is_powered_down = FALSE],
                       inp)
         IN  Outcome(r.hx, "none", 0, r.polls, r.xfers, 1)

safe_read(h, inps) ==
    LET p == IF h.is_powered_down THEN power_up(h, inps[1])
             ELSE Outcome(h, "none", 0, 0, 0, 0)
        r == read(p.hx, inps[2])
    IN  Outcome(r.hx, r.exc, r.ret, p.polls + r.polls, p.xfers + r.xfers,
                p.pins + r.pins)

graceful_shutdown(h) == power_down(h)

\* the branch of set_gain that picks the pattern; NoClock: the ValueError
NoClock == <<>>

ClockOfGain_PulsesInGainOrder(gain) ==
    IF gain = 128 THEN clock_25
    ELSE IF gain = 64 THEN clock_26
    ELSE IF gain = 32 THEN clock_27
    ELSE NoClock

ClockOfGain_DefaultsTo128(gain) ==
    IF gain = 64 THEN clock_27
    ELSE IF gain = 32 THEN clock_26
    ELSE clock_25

ClockOfGain(gain) ==
    IF gain = 128 THEN clock_25
    ELSE IF gain = 64 THEN clock_27
    ELSE IF gain = 32 THEN clock_26
    ELSE NoClock

\* set_gain(): inps[1] feeds power_up's dummy read, inps[2] and inps[3] the
\* two reads that apply the gain
set_gain(h, gain, inps) ==
    LET p == IF h.is_powered_down THEN power_up(h, inps[1])
             ELSE Outcome(h, "none", 0, 0, 0, 0)
        c == ClockOfGain(gain)
    IN  IF c = NoClock
        THEN Outcome(p.hx, "ValueError:gain", 0, p.polls, p.xfers, p.pins)
        ELSE LET h1 == [p.hx EXCEPT !.clock = c]
                 r1 == read(h1, inps[2])
                 r2 == read(r1.hx, inps[3])
             IN  IF r1.exc # "none"
                 THEN Outcome(r1.hx, r1.exc, 0, p.polls + r1.polls,
                              p.xfers + r1.xfers, p.pins)
                 ELSE IF r2.exc # "none"
                 THEN Outcome(r2.hx, r2.exc, 0, p.polls + r1.polls + r2.polls,
                              p.xfers + r1.xfers + r2.xfers, p.pins)
                 ELSE Outcome([r2.hx EXCEPT !.filtered = r2.ret], "none", 0,
                              p.polls + r1.polls + r2.polls,
                              p.xfers + r1.xfers + r2.xfers, p.pins)

\* HX711.__init__ before its set_gain(gain): clock low, powered up, clock_25
NewHX711 ==
    [is_powered_down |-> FALSE, clock |-> clock_25, clock_pin |-> 0,
     filtered |-> 0]

-----------------------------------------------------------------------------
(* Inputs of the model.                                                    *)

\* sampled 7-byte buffers: 0, 5, -1 (every data bit set, the clock-phase
\* bits set too) and -8388608 (only the sign bit)
Buf0 == <<0, 0, 0, 0, 0, 0, 0>>

Buf5 == <<0, 0, 0, 0, 0, 17, 0>>

BufMinus1 == <<255, 85, 255, 85, 255, 85, 128>>

BufMin == <<64, 0, 0, 0, 0, 0, 0>>

Buffers == {Buf0, Buf5, BufMinus1, BufMin}

\* the data pin is low at the first poll, at the last one, or at none
ReadyPoints == {1, PollLimit, PollLimit + 1}

ReadInputs == [first_low : ReadyPoints, data : Buffers]

Gains == {128, 64, 32, 0, 16, 256}


\* reads the driver actions draw from: ready at once or never, two buffers
DriverInputs == {i \in ReadInputs : i.first_low \in {1, PollLimit + 1}
                                    /\ i.data \in {Buf5, BufMinus1}}

GoodRead(buf) == [first_low |-> 1, data |-> buf]

TimeoutRead == [first_low |-> PollLimit + 1, data |-> Buf0]

\* the buffers the sensor returns while the device runs
DevBuffers == {Buf5, BufMinus1}

DevReadInputs == {GoodRead(b) : b \in DevBuffers} \cup {TimeoutRead}

\* n reads: the first k sample b, the others a; none fails
GoodRun(n, a, b, k) == [i \in 1..n |-> IF i <= k THEN GoodRead(b) ELSE GoodRead(a)]

\* n reads of a, of which read k times out
FailRun(n, a, k) == [i \in 1..n |-> IF i = k THEN TimeoutRead ELSE GoodRead(a)]

-----------------------------------------------------------------------------
(* calculations.py                                                         *)

\* sorted(values), by insertion
RECURSIVE Insert(_, _)
Insert(x, s) ==
    IF s = <<>> THEN <<x>>
    ELSE IF x <= Head(s) THEN <<x>> \o s
    ELSE <<Head(s)>> \o Insert(x, Tail(s))

RECURSIVE sorted(_)
sorted(values) ==
    IF values = <<>> THEN <<>>
    ELSE CHOOSE r \in {Insert(Head(values), s) : s \in {sorted(Tail(values))}} :
             TRUE

\* get_median_value(), in half counts: 2 * the float it returns, which is
\* exact ((a + b) / 2.0 of two 24-bit integers).  Python indexes from 0.
get_median_value(values) ==
    IF values = <<>> THEN 0
    ELSE CHOOSE r \in
             {LET n == Len(sorted_values)
              IN  IF n % 2 = 0
                  THEN sorted_values[n \div 2] + sorted_values[n \div 2 + 1]
                  ELSE 2 * sorted_values[n \div 2 + 1] :
                 sorted_values \in {sorted(values)}} : TRUE

-----------------------------------------------------------------------------
(* device.py: constants and the synchronous methods.  A method takes the   *)
(* device's shared fields as a record d and returns them changed.          *)

\* class MeasurementTaskStatus (ENABLED is a reserved word of TLA+)
STATUS_DISABLED == 0

STATUS_ENABLED == 1

STATUS_CALIBRATION == 2

STATUS_TARE == 3

STATUS_DEFAULT_CALIBRATION == 4

MeasurementTaskStatus ==
    {STATUS_DISABLED, STATUS_ENABLED, STATUS_CALIBRATION, STATUS_TARE,
     STATUS_DEFAULT_CALIBRATION}

CommandCode ==
    [TARE_SCALE |-> 100, START_MEASUREMENT |-> 101, STOP_MEASUREMENT |-> 102,
     SHUTDOWN |-> 110, SAMPLE_BATTERY |-> 111, GET_PROGRESSOR_ID |-> 112,
     GET_APP_VERSION |-> 107, GET_CALIBRATION |-> 114,
     ADD_CALIBRATION_POINT |-> 115, DEFAULT_CALIBRATION |-> 116]

\* self.tare_samples_amount
tare_samples_amount == 10

\* raw_samples_amount, as main() passes it
raw_samples_amount == 1

None == "None"

\* the aioble connection object advertise() yields
Connection == "connection"

Tasks == {"advertise", "measurement_task", "gatt_events_task"}

\* utime.ticks_us() returns a value of 0..MaxTick
MaxTick == 1

Ticks == 0..MaxTick

\* the 10 reads of a tare and the reads of one weight measurement
TareRuns ==
    {GoodRun(tare_samples_amount, BufMinus1, Buf5, k) :
        k \in {0, tare_samples_amount \div 2}}
    \cup {FailRun(tare_samples_amount, Buf5, k) : k \in {1, tare_samples_amount}}

RawRuns ==
    {GoodRun(raw_samples_amount, a, a, 0) : a \in DevBuffers}
    \cup {FailRun(raw_samples_amount, Buf5, 1)}

stop_measurement(d) ==
    [d EXCEPT !.measurement_status = STATUS_DISABLED,
              !.start_time = 0]

shutdown_FlagNotSet(d) ==
    [d EXCEPT !.measurement_status = STATUS_DISABLED]

shutdown(d) ==
    [d EXCEPT !.shutdown_requested = TRUE,
              !.measurement_status = STATUS_DISABLED]

\* HX711.get_value() is called by Esp32HX711 and is not defined in
\* hx711_spi.py: one read(), as the specification's read_multiple has it
get_value(h, inp) == read(h, inp)

read_raw_value(h, inp) == get_value(h, inp)

\* [self.read_raw_value() for _ in range(samples)]: the list, or the first
\* exception a read raises
read_multiple_values(h, inps) ==
    CHOOSE r \in
        {LET bad == {i \in 1..Len(inps) : rs[i].exc # "none"}
         IN  IF bad = {}
             THEN [exc |-> "none",
                   values |-> [i \in 1..Len(inps) |-> rs[i].ret]]
             ELSE [exc |-> rs[CHOOSE i \in bad : \A j \in bad : i <= j].exc,
                   values |-> <<>>] :
            rs \in {[i \in 1..Len(inps) |-> read_raw_value(h, inps[i])]}} : TRUE

perform_tare_ResetsOnFailure(d, h, inps) ==
    CHOOSE r \in
        {IF rv.exc # "none" \/ rv.values = <<>>
         THEN [d |-> [d EXCEPT !.tare_offset = 0], ok |-> FALSE,
               values |-> <<>>]
         ELSE [d |-> [d EXCEPT !.tare_offset = get_median_value(rv.values)],
               ok |-> TRUE, values |-> rv.values] :
            rv \in {read_multiple_values(h, inps)}} : TRUE

\* perform_tare(): ok is its return value, values what it read
perform_tare(d, h, inps) ==
    CHOOSE r \in
        {IF rv.exc # "none" THEN [d |-> d, ok |-> FALSE, values |-> <<>>]
         ELSE IF rv.values = <<>> THEN [d |-> d, ok |-> FALSE, values |-> <<>>]
         ELSE [d |-> [d EXCEPT !.tare_offset = get_median_value(rv.values)],
               ok |-> TRUE, values |-> rv.values] :
            rv \in {read_multiple_values(h, inps)}} : TRUE

\* what a method did besides changing d: the data point it notified
\* ("none": no notify succeeded) and whether a notify raised
Effect(d, sent, failed) == [d |-> d, sent |-> sent, failed |-> failed]

\* send_weight_measurement() treating a failed read like a failed notify
send_weight_measurement_ReadFailureStops(d, h, inps, notify_ok) ==
    IF d.connected_device = None THEN Effect(d, "none", FALSE)
    ELSE LET rv == read_multiple_values(h, inps)
         IN  IF rv.exc # "none"
             THEN Effect(stop_measurement([d EXCEPT !.connected_device = None]),
                         "none", FALSE)
             ELSE IF notify_ok THEN Effect(d, "weight_measurement", FALSE)
             ELSE Effect(stop_measurement([d EXCEPT !.connected_device = None]),
                         "none", TRUE)

\* send_weight_measurement(); notify_ok: notify() returns (else it raises)
send_weight_measurement(d, h, inps, notify_ok) ==
    IF d.connected_device = None THEN Effect(d, "none", FALSE)
    ELSE LET rv == read_multiple_values(h, inps)
         IN  IF rv.exc # "none" THEN Effect(d, "none", FALSE)
             ELSE IF notify_ok THEN Effect(d, "weight_measurement", FALSE)
             ELSE Effect(stop_measurement([d EXCEPT !.connected_device = None]),
                         "none", TRUE)

send_data_point(d, data_point, notify_ok) ==
    IF d.connected_device # None
    THEN IF notify_ok THEN Effect(d, data_point, FALSE)
         ELSE Effect([d EXCEPT !.connected_device = None], "none", TRUE)
    ELSE Effect(d, "none", FALSE)

process_control_command_CalibrationPoint(d, op_code, now, notify_ok) ==
    IF op_code = CommandCode.TARE_SCALE
    THEN Effect([d EXCEPT !.measurement_status = STATUS_TARE], "none", FALSE)
    ELSE IF op_code = CommandCode.START_MEASUREMENT
    THEN IF ~d.shutdown_requested
         THEN Effect([d EXCEPT !.start_time = now,
                               !.measurement_status = STATUS_ENABLED],
                     "none", FALSE)
         ELSE Effect(d, "none", FALSE)
    ELSE IF op_code = CommandCode.STOP_MEASUREMENT
    THEN Effect(stop_measurement(d), "none", FALSE)
    ELSE IF op_code = CommandCode.GET_APP_VERSION
    THEN send_data_point(d, "app_version", notify_ok)
    ELSE IF op_code = CommandCode.GET_PROGRESSOR_ID
    THEN send_data_point(d, "progressor_id", notify_ok)
    ELSE IF op_code = CommandCode.SAMPLE_BATTERY
    THEN send_data_point(d, "battery_voltage", notify_ok)
    ELSE IF op_code = CommandCode.ADD_CALIBRATION_POINT
    THEN Effect([d EXCEPT !.measurement_status = STATUS_CALIBRATION],
                "none", FALSE)
    ELSE IF op_code = CommandCode.DEFAULT_CALIBRATION
    THEN Effect(d, "none", FALSE)
    ELSE IF op_code = CommandCode.SHUTDOWN
    THEN Effect(shutdown(stop_measurement(d)), "none", FALSE)
    ELSE Effect(d, "none", FALSE)

\* process_control_command() with a DEFAULT_CALIBRATION branch that sets
\* the status
process_control_command_DefaultCalibration(d, op_code, now, notify_ok) ==
    IF op_code = CommandCode.TARE_SCALE
    THEN Effect([d EXCEPT !.measurement_status = STATUS_TARE], "none", FALSE)
    ELSE IF op_code = CommandCode.START_MEASUREMENT
    THEN IF ~d.shutdown_requested
         THEN Effect([d EXCEPT !.start_time = now,
                               !.measurement_status = STATUS_ENABLED],
                     "none", FALSE)
         ELSE Effect(d, "none", FALSE)
    ELSE IF op_code = CommandCode.STOP_MEASUREMENT
    THEN Effect(stop_measurement(d), "none", FALSE)
    ELSE IF op_code = CommandCode.GET_APP_VERSION
    THEN send_data_point(d, "app_version", notify_ok)
    ELSE IF op_code = CommandCode.GET_PROGRESSOR_ID
    THEN send_data_point(d, "progressor_id", notify_ok)
    ELSE IF op_code = CommandCode.SAMPLE_BATTERY
    THEN send_data_point(d, "battery_voltage", notify_ok)
    ELSE IF op_code = CommandCode.ADD_CALIBRATION_POINT
    THEN Effect(d, "none", FALSE)
    ELSE IF op_code = CommandCode.DEFAULT_CALIBRATION
    THEN Effect([d EXCEPT !.measurement_status = STATUS_DEFAULT_CALIBRATION],
                "none", FALSE)
    ELSE IF op_code = CommandCode.SHUTDOWN
    THEN Effect(shutdown(stop_measurement(d)), "none", FALSE)
    ELSE Effect(d, "none", FALSE)

\* process_control_command(op_code); now: what utime.ticks_us() returns
process_control_command(d, op_code, now, notify_ok) ==
    IF op_code = CommandCode.TARE_SCALE
    THEN Effect([d EXCEPT !.measurement_status = STATUS_TARE],
                "none", FALSE)
    ELSE IF op_code = CommandCode.START_MEASUREMENT
    THEN IF ~d.shutdown_requested
         THEN Effect([d EXCEPT !.start_time = now,
                               !.measurement_status = STATUS_ENABLED],
                     "none", FALSE)
         ELSE Effect(d, "none", FALSE)
    ELSE IF op_code = CommandCode.STOP_MEASUREMENT
    THEN Effect(stop_measurement(d), "none", FALSE)
    ELSE IF op_code = CommandCode.GET_APP_VERSION
    THEN send_data_point(d, "app_version", notify_ok)
    ELSE IF op_code = CommandCode.GET_PROGRESSOR_ID
    THEN send_data_point(d, "progressor_id", notify_ok)
    ELSE IF op_code = CommandCode.SAMPLE_BATTERY
    THEN send_data_point(d, "battery_voltage", notify_ok)
    ELSE IF op_code = CommandCode.ADD_CALIBRATION_POINT
    THEN Effect(d, "none", FALSE)
    ELSE IF op_code = CommandCode.DEFAULT_CALIBRATION
    THEN Effect(d, "none", FALSE)
    ELSE IF op_code = CommandCode.SHUTDOWN
    THEN Effect(shutdown(stop_measurement(d)), "none", FALSE)
    ELSE Effect(d, "none", FALSE)

-----------------------------------------------------------------------------
(* The tasks.  pcAdv: "loop" (created, not yet run), "advertising" (in     *)
(* await aioble.advertise), "connected" (in await connection.              *)
(* disconnected), "backoff" (in the sleep after an advertising error),     *)
(* "done".  pcMeas: "loop" (created, or in one of its sleeps), "done".     *)
(* pcGatt: "loop" (created, or in its sleep while disconnected),           *)
(* "wait_write" (in await written), "done".  pcMain: "init" (before        *)
(* start()), "gather" (start() awaits the three tasks), "disconnecting"    *)
(* (stop() awaits connected_device.disconnect()), "stopped".               *)

devFields == <<connected_device, measurement_status, start_time, tare_offset,
               shutdown_requested>>

Dev ==
    [connected_device |-> connected_device,
     measurement_status |-> measurement_status,
     start_time |-> start_time,
     tare_offset |-> tare_offset,
     shutdown_requested |-> shutdown_requested]

SetDev(d) ==
    /\ connected_device' = d.connected_device
    /\ measurement_status' = d.measurement_status
    /\ start_time' = d.start_time
    /\ tare_offset' = d.tare_offset
    /\ shutdown_requested' = d.shutdown_requested

\* the observation of a step: its name, the control point message it read
\* (<<>>: none, else <<message>>), the data point it notified, whether a
\* notify raised, what became of a tare ("none", "ok", "failed", "skipped")
\* and the values a successful tare read
Obs(step, msg, sent, failed, tare, values) ==
    [step |-> step, msg |-> msg, sent |-> sent, failed |-> failed,
     tare |-> tare, values |-> values]

Quiet(step) == Obs(step, <<>>, "none", FALSE, "none", <<>>)

NoCall ==
    [op |-> "none", gain |-> 0, pre |-> NewHX711, exc |-> "none", ret |-> 0,
     polls |-> 0, xfers |-> 0, pins |-> 0]

\* the event loop runs the tasks from gather() until main() returns
TaskRuns == pcMain \in {"gather", "disconnecting"}

\* the loop body without its checks of the connection and of the shutdown
\* flag: any status but DISABLED and TARE is taken as ENABLED and notifies
MeasurementIteration_Unchecked(d0, h, tare_inps, raw_inps, notify_ok) ==
    IF d0.measurement_status = STATUS_DISABLED
    THEN [d |-> d0, awaits |-> TRUE, sent |-> "none", failed |-> FALSE,
          tare |-> "none", values |-> <<>>]
    ELSE IF d0.measurement_status = STATUS_TARE
    THEN CHOOSE r \in
             {[d |-> [t.d EXCEPT !.measurement_status = STATUS_DISABLED],
               awaits |-> FALSE, sent |-> "none", failed |-> FALSE,
               tare |-> IF t.ok THEN "ok" ELSE "failed",
               values |-> t.values] :
                 t \in {perform_tare(d0, h, tare_inps)}} : TRUE
    ELSE [d |-> d0, awaits |-> TRUE,
          sent |-> IF notify_ok THEN "weight_measurement" ELSE "none",
          failed |-> ~notify_ok, tare |-> "none", values |-> <<>>]

\* the loop body with a tare that returns to ENABLED
MeasurementIteration_TareResumes(d0, h, tare_inps, raw_inps, notify_ok) ==
    LET d == IF (d0.measurement_status = STATUS_ENABLED
                 /\ d0.connected_device = None)
                \/ d0.shutdown_requested
             THEN stop_measurement(d0) ELSE d0
        status == d.measurement_status
        quiet(dd, aw) == [d |-> dd, awaits |-> aw, sent |-> "none",
                          failed |-> FALSE, tare |-> "none", values |-> <<>>]
    IN  IF status = STATUS_DISABLED THEN quiet(d, TRUE)
        ELSE IF status = STATUS_TARE
        THEN CHOOSE r \in
                 {[d |-> [t.d EXCEPT !.measurement_status = STATUS_ENABLED],
                   awaits |-> TRUE, sent |-> "none", failed |-> FALSE,
                   tare |-> IF t.ok THEN "ok" ELSE "failed",
                   values |-> t.values] :
                     t \in {perform_tare(d, h, tare_inps)}} : TRUE
        ELSE IF d.connected_device # None /\ ~d.shutdown_requested
        THEN CHOOSE r \in
                 {[d |-> e.d, awaits |-> TRUE, sent |-> e.sent,
                   failed |-> e.failed, tare |-> "none", values |-> <<>>] :
                     e \in {send_weight_measurement(d, h, raw_inps,
                                                    notify_ok)}} : TRUE
        ELSE quiet(stop_measurement(d), FALSE)

\* one iteration of the while loop of measurement_task(), up to its await
\* (awaits: the iteration ends in a sleep) or to the end of its body
MeasurementIteration(d0, h, tare_inps, raw_inps, notify_ok) ==
    LET d == IF (d0.measurement_status = STATUS_ENABLED
                 /\ d0.connected_device = None)
                \/ d0.shutdown_requested
             THEN stop_measurement(d0) ELSE d0
        status == d.measurement_status
        quiet(dd, aw) == [d |-> dd, awaits |-> aw, sent |-> "none",
                          failed |-> FALSE, tare |-> "none", values |-> <<>>]
    IN  IF status = STATUS_DISABLED THEN quiet(d, TRUE)
        ELSE IF status = STATUS_TARE
        THEN IF d.shutdown_requested
             THEN [quiet([d EXCEPT !.measurement_status = STATUS_DISABLED], FALSE)
                       EXCEPT !.tare = "skipped"]
             ELSE CHOOSE r \in
                      {[d |-> [t.d EXCEPT !.measurement_status = STATUS_DISABLED],
                        awaits |-> FALSE, sent |-> "none", failed |-> FALSE,
                        tare |-> IF t.ok THEN "ok" ELSE "failed",
                        values |-> t.values] :
                          t \in {perform_tare(d, h, tare_inps)}} : TRUE
        ELSE IF status = STATUS_ENABLED
        THEN IF d.connected_device # None /\ ~d.shutdown_requested
             THEN CHOOSE r \in
                      {[d |-> e.d, awaits |-> TRUE, sent |-> e.sent,
                        failed |-> e.failed, tare |-> "none", values |-> <<>>] :
                          e \in {send_weight_measurement(d, h, raw_inps,
                                                         notify_ok)}} : TRUE
             ELSE quiet(stop_measurement(d), FALSE)
        ELSE IF status = STATUS_CALIBRATION
        THEN quiet([d EXCEPT !.measurement_status = STATUS_DISABLED], FALSE)
        ELSE IF status = STATUS_DEFAULT_CALIBRATION
        THEN quiet([d EXCEPT !.measurement_status = STATUS_DISABLED], FALSE)
        ELSE quiet(d, FALSE)

\* the iterations the task runs before it suspends: an iteration that does
\* not await leaves the status DISABLED, and the next one sleeps
MeasurementRun(d, h, tare_inps, raw_inps, notify_ok) ==
    CHOOSE r \in
        {IF r1.awaits THEN r1
         ELSE CHOOSE rr \in
                  {[r1 EXCEPT !.d = r2.d, !.awaits = r2.awaits] :
                      r2 \in {MeasurementIteration(r1.d, h, tare_inps,
                                                   raw_inps, notify_ok)}} : TRUE :
            r1 \in {MeasurementIteration(d, h, tare_inps, raw_inps,
                                         notify_ok)}} : TRUE

\* the runs of the task for every input the run consumes: the reads of a
\* tare, the reads of a weight measurement and the outcome of its notify
MeasurementRuns(d, h) ==
    LET status == MeasurementIteration(d, h, <<>>, <<>>, TRUE).d.measurement_status
        sends == d.measurement_status = STATUS_ENABLED /\ status = STATUS_ENABLED
    IN  {MeasurementRun(d, h, tare_inps, raw_inps, notify_ok) :
            tare_inps \in IF d.measurement_status = STATUS_TARE
                          THEN TareRuns ELSE {<<>>},
            raw_inps \in IF sends THEN RawRuns ELSE {<<>>},
            notify_ok \in IF sends THEN BOOLEAN ELSE {TRUE}}

HandleMessage_EmptyIsFault(d, message, now, notify_ok) ==
    IF Len(message) > 0
    THEN process_control_command(d, message[1], now, notify_ok)
    ELSE Effect(stop_measurement([d EXCEPT !.connected_device = None]),
                "none", FALSE)

\* gatt_events_task(): what it does with the message it read
HandleMessage(d, message, now, notify_ok) ==
    IF Len(message) > 0
    THEN process_control_command(d, message[1], now, notify_ok)
    ELSE Effect(d, "none", FALSE)

\* the head of the loop of gatt_events_task(), with no write pending
GattHead(running, d) ==
    IF ~running THEN "done"
    ELSE IF d.connected_device = None THEN "loop"
    ELSE "wait_write"

\* the head of the loop of advertise()
AdvHead(running) == IF running THEN "advertising" ELSE "done"

-----------------------------------------------------------------------------
(* The program of main.py.                                                 *)

\* an opcode no branch of process_control_command names
UnknownOpcode == 0

Opcodes ==
    {CommandCode.TARE_SCALE, CommandCode.START_MEASUREMENT,
     CommandCode.STOP_MEASUREMENT, CommandCode.SHUTDOWN,
     CommandCode.SAMPLE_BATTERY, CommandCode.GET_PROGRESSOR_ID,
     CommandCode.GET_APP_VERSION, CommandCode.GET_CALIBRATION,
     CommandCode.ADD_CALIBRATION_POINT, CommandCode.DEFAULT_CALIBRATION,
     UnknownOpcode}

\* what a central writes to the control point: nothing, or an opcode
Messages == {<<>>} \cup {<<op>> : op \in Opcodes}

\* the HX711 objects HX711.__init__ (gain 128) can leave
ConstructedHX711 ==
    {set_gain(NewHX711, 128, <<i, i, j>>).hx : i \in {GoodRead(Buf5)},
                                               j \in {GoodRead(BufMinus1)}}

\* the reads of setup(): each succeeds or times out
SetupInputs == {GoodRead(Buf5), TimeoutRead}

\* UCrimpDevice.__init__, with the driver and the led as the constructors of
\* HX711 and Esp32HX711 leave them
Init ==
    /\ hx \in ConstructedHX711
    /\ drv = NoCall
    /\ led \in {0, 1}
    /\ connected_device = None
    /\ is_running = FALSE
    /\ measurement_status = STATUS_DISABLED
    /\ start_time = 0
    /\ tare_offset = 0
    /\ shutdown_requested = FALSE
    /\ link = FALSE
    /\ control_point = <<>>
    /\ cancelled = {}
    /\ pcMain = "init"
    /\ pcAdv = "loop"
    /\ pcMeas = "loop"
    /\ pcGatt = "loop"
    /\ last = Quiet("init")

\* start() up to its await of gather(): setup(), the initial tare, the three
\* tasks.  An exception of setup() leaves start() before its try, and
\* main()'s finally runs stop().
Start ==
    /\ pcMain = "init"
    /\ \E i1 \in SetupInputs, i2 \in SetupInputs, i3 \in SetupInputs,
          run \in TareRuns :
          \E sg \in {set_gain(hx, 128, <<i1, i1, i2>>)} :
          \E gv \in {get_value(sg.hx, i3)}, t \in {perform_tare(Dev, sg.hx, run)} :
              /\ hx' = sg.hx
              /\ IF sg.exc # "none" \/ gv.exc # "none"
                 THEN /\ led' = 1
                      /\ pcMain' = "stopped"
                      /\ is_running' = FALSE
                      /\ last' = Quiet("start_failed")
                      /\ UNCHANGED devFields
                 ELSE /\ led' = 0
                      /\ pcMain' = "gather"
                      /\ is_running' = TRUE
                      /\ SetDev(t.d)
                      /\ last' = Obs("start", <<>>, "none", FALSE,
                                     IF t.ok THEN "ok" ELSE "failed", t.values)
    /\ UNCHANGED <<drv, link, control_point, cancelled, pcAdv, pcMeas, pcGatt>>

\* start() is interrupted in gather() (KeyboardInterrupt, or a cancellation,
\* which gather() passes on to the tasks) and its finally runs stop() up to
\* the await of disconnect(); with no live connection stop() runs through
Interrupt ==
    /\ pcMain = "gather"
    /\ \E c \in {{}, Tasks} :
          cancelled' = {t \in c : \/ t = "advertise" /\ pcAdv # "done"
                                  \/ t = "measurement_task" /\ pcMeas # "done"
                                  \/ t = "gatt_events_task" /\ pcGatt # "done"}
    /\ is_running' = FALSE
    /\ IF connected_device # None /\ link
       THEN /\ pcMain' = "disconnecting"
            /\ link' = FALSE
            /\ led' = led
       ELSE /\ pcMain' = "stopped"
            /\ link' = link
            /\ led' = 1
    /\ last' = Quiet("stop")
    /\ UNCHANGED <<hx, drv, devFields, control_point, pcAdv, pcMeas, pcGatt>>

\* stop() after disconnect(): self.hx711.off()
StopFinish ==
    /\ pcMain = "disconnecting"
    /\ led' = 1
    /\ pcMain' = "stopped"
    /\ last' = Quiet("stop")
    /\ UNCHANGED <<hx, drv, devFields, is_running, link, control_point,
                   cancelled, pcAdv, pcMeas, pcGatt>>

\* advertise() runs for the first time
AdvStart ==
    /\ TaskRuns /\ "advertise" \notin cancelled
    /\ pcAdv = "loop"
    /\ pcAdv' = AdvHead(is_running)
    /\ last' = Quiet("advertise")
    /\ UNCHANGED <<hx, drv, led, devFields, is_running, link, control_point,
                   cancelled, pcMain, pcMeas, pcGatt>>

\* the accept without its reset of the shutdown flag
AdvAccept_KeepsShutdownFlag ==
    /\ TaskRuns /\ "advertise" \notin cancelled
    /\ pcAdv = "advertising"
    /\ link' = TRUE
    /\ connected_device' = Connection
    /\ pcAdv' = "connected"
    /\ last' = Quiet("accept")
    /\ UNCHANGED <<hx, drv, led, is_running, measurement_status, start_time,
                   tare_offset, shutdown_requested, control_point, cancelled,
                   pcMain, pcMeas, pcGatt>>

\* a central connects and aioble.advertise() returns the connection
AdvAccept ==
    /\ TaskRuns /\ "advertise" \notin cancelled
    /\ pcAdv = "advertising"
    /\ link' = TRUE
    /\ connected_device' = Connection
    /\ shutdown_requested' = FALSE
    /\ pcAdv' = "connected"
    /\ last' = Quiet("accept")
    /\ UNCHANGED <<hx, drv, led, is_running, measurement_status, start_time,
                   tare_offset, control_point, cancelled, pcMain, pcMeas,
                   pcGatt>>

\* aioble.advertise() raises: the except branch sleeps
AdvError ==
    /\ TaskRuns /\ "advertise" \notin cancelled
    /\ pcAdv = "advertising"
    /\ pcAdv' = "backoff"
    /\ last' = Quiet("advertise_error")
    /\ UNCHANGED <<hx, drv, led, devFields, is_running, link, control_point,
                   cancelled, pcMain, pcMeas, pcGatt>>

AdvBackoff ==
    /\ TaskRuns /\ "advertise" \notin cancelled
    /\ pcAdv = "backoff"
    /\ pcAdv' = AdvHead(is_running)
    /\ last' = Quiet("advertise")
    /\ UNCHANGED <<hx, drv, led, devFields, is_running, link, control_point,
                   cancelled, pcMain, pcMeas, pcGatt>>

\* the link is lost (the central disconnects, or the supervision timeout)
PeerDisconnect ==
    /\ TaskRuns
    /\ link
    /\ link' = FALSE
    /\ last' = Quiet("link_lost")
    /\ UNCHANGED <<hx, drv, led, devFields, is_running, control_point,
                   cancelled, pcMain, pcAdv, pcMeas, pcGatt>>

\* the finally block of advertise() without its reset of the handle
AdvDisconnected_KeepsHandle ==
    /\ TaskRuns /\ "advertise" \notin cancelled
    /\ pcAdv = "connected"
    /\ ~link
    /\ SetDev(stop_measurement(Dev))
    /\ pcAdv' = AdvHead(is_running)
    /\ last' = Quiet("disconnected")
    /\ UNCHANGED <<hx, drv, led, is_running, link, control_point, cancelled,
                   pcMain, pcMeas, pcGatt>>

\* connection.disconnected() returns: the finally block, then the loop head
AdvDisconnected ==
    /\ TaskRuns /\ "advertise" \notin cancelled
    /\ pcAdv = "connected"
    /\ ~link
    /\ SetDev(stop_measurement([Dev EXCEPT !.connected_device = None]))
    /\ pcAdv' = AdvHead(is_running)
    /\ last' = Quiet("disconnected")
    /\ UNCHANGED <<hx, drv, led, is_running, link, control_point, cancelled,
                   pcMain, pcMeas, pcGatt>>

\* CancelledError at the await of advertise(): while connected the finally
\* block runs and leaving the async with disconnects the link
AdvCancelled ==
    /\ TaskRuns /\ "advertise" \in cancelled
    /\ pcAdv # "done"
    /\ IF pcAdv = "connected"
       THEN /\ SetDev(stop_measurement([Dev EXCEPT !.connected_device = None]))
            /\ link' = FALSE
       ELSE UNCHANGED <<devFields, link>>
    /\ pcAdv' = "done"
    /\ cancelled' = cancelled \ {"advertise"}
    /\ last' = Quiet("advertise_cancelled")
    /\ UNCHANGED <<hx, drv, led, is_running, control_point, pcMain, pcMeas,
                   pcGatt>>

\* measurement_task() resumes at the head of its loop and runs to its next
\* sleep
MeasurementTick ==
    /\ TaskRuns /\ "measurement_task" \notin cancelled
    /\ pcMeas = "loop"
    /\ IF ~is_running
       THEN /\ pcMeas' = "done"
            /\ last' = Quiet("measurement_exit")
            /\ UNCHANGED devFields
       ELSE \E r \in MeasurementRuns(Dev, hx) :
                   /\ SetDev(r.d)
                   /\ pcMeas' = "loop"
                   /\ last' = Obs("measurement_task", <<>>, r.sent, r.failed,
                                  r.tare, r.values)
    /\ UNCHANGED <<hx, drv, led, is_running, link, control_point, cancelled,
                   pcMain, pcAdv, pcGatt>>

MeasurementCancelled ==
    /\ TaskRuns /\ "measurement_task" \in cancelled
    /\ pcMeas # "done"
    /\ pcMeas' = "done"
    /\ cancelled' = cancelled \ {"measurement_task"}
    /\ last' = Quiet("measurement_cancelled")
    /\ UNCHANGED <<hx, drv, led, devFields, is_running, link, control_point,
                   pcMain, pcAdv, pcGatt>>

\* a central writes the control point: the value is replaced, the write
\* event set
ClientWrite ==
    /\ TaskRuns
    /\ link
    /\ \E message \in Messages : control_point' = <<message>>
    /\ last' = Quiet("write")
    /\ UNCHANGED <<hx, drv, led, devFields, is_running, link, cancelled,
                   pcMain, pcAdv, pcMeas, pcGatt>>

\* gatt_events_task() reads the written message, dispatches it and goes to
\* the head of its loop (the write event is clear: written() suspends)
GattDispatch ==
    \E now \in Ticks, notify_ok \in BOOLEAN :
        \E e \in {HandleMessage(Dev, control_point[1], now, notify_ok)} :
            /\ SetDev(e.d)
            /\ control_point' = <<>>
            /\ pcGatt' = GattHead(is_running, e.d)
            /\ last' = Obs("gatt_events_task", control_point, e.sent,
                           e.failed, "none", <<>>)

\* gatt_events_task() resumes at the head of its loop (from its sleep, or
\* for the first time); written() returns at once if the event is set
GattLoop ==
    /\ TaskRuns /\ "gatt_events_task" \notin cancelled
    /\ pcGatt = "loop"
    /\ IF is_running /\ connected_device # None /\ control_point # <<>>
       THEN GattDispatch
       ELSE /\ pcGatt' = GattHead(is_running, Dev)
            /\ last' = Quiet("gatt_events_task")
            /\ UNCHANGED <<devFields, control_point>>
    /\ UNCHANGED <<hx, drv, led, is_running, link, cancelled, pcMain, pcAdv,
                   pcMeas>>

\* written() returns
GattWritten ==
    /\ TaskRuns /\ "gatt_events_task" \notin cancelled
    /\ pcGatt = "wait_write"
    /\ control_point # <<>>
    /\ GattDispatch
    /\ UNCHANGED <<hx, drv, led, is_running, link, cancelled, pcMain, pcAdv,
                   pcMeas>>

GattCancelled ==
    /\ TaskRuns /\ "gatt_events_task" \in cancelled
    /\ pcGatt # "done"
    /\ pcGatt' = "done"
    /\ cancelled' = cancelled \ {"gatt_events_task"}
    /\ last' = Quiet("gatt_cancelled")
    /\ UNCHANGED <<hx, drv, led, devFields, is_running, link, control_point,
                   pcMain, pcAdv, pcMeas>>

\* the steps each task takes when the event it awaits has happened (a timer,
\* the end of the link, a write, a cancellation)
AdvertiseStep == AdvStart \/ AdvBackoff \/ AdvDisconnected \/ AdvCancelled

MeasurementStep == MeasurementTick \/ MeasurementCancelled

GattStep == GattLoop \/ GattWritten \/ GattCancelled

Next ==
    \/ Start
    \/ Interrupt
    \/ StopFinish
    \/ AdvStart
    \/ AdvAccept
    \/ AdvError
    \/ AdvBackoff
    \/ PeerDisconnect
    \/ AdvDisconnected
    \/ AdvCancelled
    \/ MeasurementTick
    \/ MeasurementCancelled
    \/ ClientWrite
    \/ GattLoop
    \/ GattWritten
    \/ GattCancelled

Spec == Init /\ [][Next]_vars

\* the scheduler runs every task that is ready; a central connecting, the
\* loss of the link, a write, an advertising error and the interrupt are
\* not bound to happen
FairSpec ==
    /\ Spec
    /\ WF_vars(AdvertiseStep)
    /\ WF_vars(MeasurementStep)
    /\ WF_vars(GattStep)
    /\ WF_vars(Start)
    /\ WF_vars(StopFinish)

-----------------------------------------------------------------------------
(* The HX711 class under any sequence of calls of its public methods.      *)

\* a call: the object before it (pre) and its outcome
Call(op, gain, out) ==
    /\ hx' = out.hx
    /\ drv' = [op |-> op, gain |-> gain, pre |-> hx, exc |-> out.exc,
               ret |-> out.ret, polls |-> out.polls, xfers |-> out.xfers,
               pins |-> out.pins]
    /\ UNCHANGED deviceVars

\* HX711(clock_pin, data_pin, spi, gain) for a gain that __init__'s
\* set_gain accepts and reads that succeed
DriverInit ==
    /\ hx \in {set_gain(NewHX711, g, <<i, i, i>>).hx :
                  g \in {128, 64, 32}, i \in {GoodRead(Buf5)}}
    /\ drv = NoCall
    /\ led = 0
    /\ connected_device = None
    /\ is_running = FALSE
    /\ measurement_status = STATUS_DISABLED
    /\ start_time = 0
    /\ tare_offset = 0
    /\ shutdown_requested = FALSE
    /\ link = FALSE
    /\ control_point = <<>>
    /\ cancelled = {}
    /\ pcMain = "init"
    /\ pcAdv = "loop"
    /\ pcMeas = "loop"
    /\ pcGatt = "loop"
    /\ last = Quiet("init")

DrvSetGain ==
    \E gain \in Gains, i1 \in DriverInputs, i2 \in DriverInputs,
       i3 \in DriverInputs :
        \E out \in {set_gain(hx, gain, <<i1, i2, i3>>)} :
            Call("set_gain", gain, out)

DrvRead ==
    \E inp \in ReadInputs : \E out \in {read(hx, inp)} : Call("read", 0, out)

DrvSafeRead ==
    \E i1 \in DriverInputs, i2 \in DriverInputs :
        \E out \in {safe_read(hx, <<i1, i2>>)} : Call("safe_read", 0, out)

DrvPowerDown == \E out \in {power_down(hx)} : Call("power_down", 0, out)

DrvPowerUp ==
    \E inp \in DriverInputs :
        \E out \in {power_up(hx, inp)} : Call("power_up", 0, out)

DrvGracefulShutdown ==
    \E out \in {graceful_shutdown(hx)} : Call("graceful_shutdown", 0, out)

DriverNext ==
    \/ DrvSetGain
    \/ DrvRead
    \/ DrvSafeRead
    \/ DrvPowerDown
    \/ DrvPowerUp
    \/ DrvGracefulShutdown

DriverSpec == DriverInit /\ [][DriverNext]_vars

-----------------------------------------------------------------------------
(* device.py: the weight conversion and the DataPoint codec, as functions  *)
(* of their arguments.  Bytes are numbers 0..255, a bytes object is a      *)
(* sequence of them, a str is the sequence of its code points.  A weight   *)
(* is kept in hundredths of a kilogram (round(x, 2) leaves only those).    *)

MAX_PAYLOAD_SIZE == 10

DEVICE_ID_SIZE == 6

\* _DEVICE_ID = "AAAAAA"
DEVICE_ID == <<65, 65, 65, 65, 65, 65>>

\* _DEVICE_VERSION = "1.0.0"
DEVICE_VERSION == <<49, 46, 48, 46, 48>>

ResponseCode ==
    [SAMPLE_BATTERY_VOLTAGE |-> 0, WEIGHT_MEASUREMENT |-> 1,
     LOW_POWER_WARNING |-> 4, APP_VERSION |-> 0, PROGRESSOR_ID |-> 0]

min(a, b) == IF a <= b THEN a ELSE b

max(a, b) == IF a >= b THEN a ELSE b

\* bytearray(n)
bytearray(n) == [i \in 1..n |-> 0]

\* s[:n] for n >= 0
Prefix(s, n) == SubSeq(s, 1, min(n, Len(s)))

\* round(n / d, 2) in hundredths, for d > 0: the nearest hundredth; a
\* quotient half way between two hundredths goes where its double lies,
\* which tie_up stands for
RoundHundredths(n, d, tie_up) ==
    LET q == (100 * n) \div d
        r == (100 * n) % d
    IN  IF 2 * r < d THEN q
        ELSE IF 2 * r > d THEN q + 1
        ELSE IF tie_up THEN q + 1 ELSE q

raw_to_kg_NoDeadband(offset, intercept, slope, raw_value, tie_up) ==
    IF raw_value = offset THEN [exc |-> "none", ret |-> 0]
    ELSE IF slope = 0 THEN [exc |-> "ZeroDivisionError", ret |-> 0]
    ELSE [exc |-> "none",
          ret |-> max(0, IF slope > 0
                         THEN RoundHundredths(raw_value - offset - intercept,
                                              2 * slope, tie_up)
                         ELSE RoundHundredths(offset + intercept - raw_value,
                                              -2 * slope, tie_up))]

\* raw_to_kg(): offset (self.tare_offset), intercept and raw_value in half
\* counts, slope in counts per kilogram; ret in hundredths of a kilogram
raw_to_kg(offset, intercept, slope, raw_value, tie_up) ==
    IF raw_value = offset THEN [exc |-> "none", ret |-> 0]
    ELSE IF slope = 0 THEN [exc |-> "ZeroDivisionError", ret |-> 0]
    ELSE LET calculated_weight ==
                 IF slope > 0
                 THEN RoundHundredths(raw_value - offset - intercept,
                                      2 * slope, tie_up)
                 ELSE RoundHundredths(offset + intercept - raw_value,
                                      -2 * slope, tie_up)
             final_weight == max(0, calculated_weight)
         IN  [exc |-> "none",
              ret |-> IF final_weight > 50 THEN final_weight ELSE 0]

\* str.encode("utf-8") for code points below 0x800
RECURSIVE encode(_)
encode(s) ==
    IF s = <<>> THEN <<>>
    ELSE (IF Head(s) < 128 THEN <<Head(s)>>
          ELSE <<192 + (Head(s) \div 64), 128 + (Head(s) % 64)>>)
         \o encode(Tail(s))

\* bytes.ljust(width, b"\x00")
ljust(b, width) ==
    IF Len(b) >= width THEN b ELSE b \o bytearray(width - Len(b))

reversed(b) == [i \in 1..Len(b) |-> b[Len(b) + 1 - i]]

\* struct.pack("<L", n): the low 32 bits, least significant byte first
pack_L(n) ==
    <<n % 256, (n \div 256) % 256, (n \div 65536) % 256,
      (n \div 16777216) % 256>>

\* the IEEE 754 single nearest to k / 100, k >= 0, as its 32 bits
Float32Bits(k) ==
    IF k = 0 THEN 0
    ELSE LET e == CHOOSE x \in -7..13 :
                      IF x >= 0
                      THEN 100 * 2 ^ x <= k /\ k < 200 * 2 ^ x
                      ELSE 100 <= k * 2 ^ (-x) /\ k * 2 ^ (-x) < 200
             n == k * 2 ^ (23 - e)
             q == n \div 100
             r == n % 100
             m == IF 2 * r < 100 THEN q
                  ELSE IF 2 * r > 100 THEN q + 1
                  ELSE q + (q % 2)
         IN  (e + 127) * 2 ^ 23 + (m - 2 ^ 23)

\* struct.pack("<f", weight)
pack_f(weight) == pack_L(Float32Bits(weight))

\* DataPoint.__init__: the object as a record
DataPoint(response_code, length, data) ==
    LET copy_len == min(min(length, Len(data)), MAX_PAYLOAD_SIZE)
    IN  [response_code |-> response_code, length |-> length,
         value |-> IF data # <<>> /\ length > 0
                   THEN [i \in 1..MAX_PAYLOAD_SIZE |->
                            IF i <= copy_len THEN data[i] ELSE 0]
                   ELSE bytearray(MAX_PAYLOAD_SIZE)]

\* as_gatt(); bytearray([response_code, length]) takes bytes only
as_gatt(dp) ==
    IF dp.length > 255 THEN [exc |-> "ValueError", bytes |-> <<>>]
    ELSE [exc |-> "none",
          bytes |-> <<dp.response_code, dp.length>>
                    \o (IF dp.length > 0 THEN Prefix(dp.value, dp.length)
                        ELSE <<>>)]

weight_measurement(weight, timestamp) ==
    DataPoint(ResponseCode.WEIGHT_MEASUREMENT, 8,
              pack_f(weight) \o pack_L(timestamp))

battery_voltage(voltage) ==
    DataPoint(ResponseCode.SAMPLE_BATTERY_VOLTAGE, 4, pack_L(voltage))

app_version(version) ==
    DataPoint(ResponseCode.APP_VERSION, Len(encode(version)), encode(version))

progressor_id(device_id) ==
    LET device_id_bytes ==
            IF Len(device_id) >= 6 THEN Prefix(encode(device_id), 6)
            ELSE ljust(encode(device_id), 6)
    IN  DataPoint(ResponseCode.PROGRESSOR_ID, DEVICE_ID_SIZE,
                  reversed(device_id_bytes))

-----------------------------------------------------------------------------
(* The conversion, the codec and the decoding of read(), each called once  *)
(* with any argument.  last holds the call: its name, its arguments and    *)
(* what it returned.                                                       *)

\* the longest str passed to the codec
MaxStr == 7

\* 'A', 'B' and 'é' (two bytes in UTF-8)
Alphabet == {65, 66, 233}

Strings ==
    UNION {[1..n -> Alphabet] : n \in 0..MaxStr}
        \cup {DEVICE_ID, DEVICE_VERSION}

\* self.tare_offset and raw_value: medians, in half counts
Offsets == {0, 4}

RawValues == {-50, 0, 4, 100, 101, 102, 103, 106, 2000}

\* self.intercept (half counts) and self.slope (counts per kilogram)
Intercepts == {-2, 0, 6}

Slopes == {-100, 0, 1, 100}

\* weights raw_to_kg returns, in hundredths
Weights == {0, 51, 1000, 6120, 8150}

\* utime.ticks_diff(current_time, self.start_time)
Timestamps == {-1, 0, 1000, 70000, 16777221}

\* read_battery_voltage() returns 4300
Voltages == {0, 4300, 65536}

\* bytes the transfer samples: no bit, bits 6 and 0, bit 2 among clock-phase
\* bits, every bit
SampledBytes == {0, 65, 174, 255}

\* self.in_data after write_readinto: six bytes that read() decodes and a
\* seventh it does not look at
SampledBuffers ==
    {s \o <<t>> : s \in [1..6 -> SampledBytes], t \in {0, 255}}

\* a call to make: its name and its arguments
CodecCall(fn, args) == [step |-> "input", fn |-> fn, args |-> args, ret |-> <<>>]

CodecInputs ==
    {CodecCall("raw_to_kg", [offset |-> offset, intercept |-> intercept,
                             slope |-> slope, raw_value |-> raw_value]) :
        offset \in Offsets, intercept \in Intercepts, slope \in Slopes,
        raw_value \in RawValues}
    \cup {CodecCall("weight_measurement", <<weight, timestamp>>) :
             weight \in Weights, timestamp \in Timestamps}
    \cup {CodecCall("battery_voltage", <<voltage>>) : voltage \in Voltages}
    \cup {CodecCall("app_version", <<version>>) : version \in Strings}
    \cup {CodecCall("progressor_id", <<device_id>>) : device_id \in Strings}
    \cup {CodecCall("read", <<in_data>>) : in_data \in SampledBuffers}
    \cup {CodecCall("lookup", <<b>>) : b \in 0..255}

\* the device as constructed, about to make one call
CodecInit ==
    /\ hx \in ConstructedHX711
    /\ drv = NoCall
    /\ led = 0
    /\ connected_device = None
    /\ is_running = FALSE
    /\ measurement_status = STATUS_DISABLED
    /\ start_time = 0
    /\ tare_offset = 0
    /\ shutdown_requested = FALSE
    /\ link = FALSE
    /\ control_point = <<>>
    /\ cancelled = {}
    /\ pcMain = "init"
    /\ pcAdv = "loop"
    /\ pcMeas = "loop"
    /\ pcGatt = "loop"
    /\ last \in CodecInputs

\* a data point built and encoded, as send_data_point does
Encoded(dp) == [dp |-> dp, gatt |-> as_gatt(dp)]

codecFrame == <<hx, drv, led, devFields, is_running, link, control_point,
                cancelled, pcMain, pcAdv, pcMeas, pcGatt>>

CallRawToKg ==
    /\ last.step = "input" /\ last.fn = "raw_to_kg"
    /\ \E tie_up \in BOOLEAN :
          last' = [last EXCEPT !.step = "call",
                               !.ret = raw_to_kg(last.args.offset,
                                                 last.args.intercept,
                                                 last.args.slope,
                                                 last.args.raw_value, tie_up)]
    /\ UNCHANGED codecFrame

CallWeightMeasurement ==
    /\ last.step = "input" /\ last.fn = "weight_measurement"
    /\ last' = [last EXCEPT !.step = "call",
                            !.ret = Encoded(weight_measurement(last.args[1],
                                                               last.args[2]))]
    /\ UNCHANGED codecFrame

CallBatteryVoltage ==
    /\ last.step = "input" /\ last.fn = "battery_voltage"
    /\ last' = [last EXCEPT !.step = "call",
                            !.ret = Encoded(battery_voltage(last.args[1]))]
    /\ UNCHANGED codecFrame

CallAppVersion ==
    /\ last.step = "input" /\ last.fn = "app_version"
    /\ last' = [last EXCEPT !.step = "call",
                            !.ret = Encoded(app_version(last.args[1]))]
    /\ UNCHANGED codecFrame

CallProgressorId ==
    /\ last.step = "input" /\ last.fn = "progressor_id"
    /\ last' = [last EXCEPT !.step = "call",
                            !.ret = Encoded(progressor_id(last.args[1]))]
    /\ UNCHANGED codecFrame

\* read() on the powered-up driver, the data pin low at the first poll
CallRead ==
    /\ last.step = "input" /\ last.fn = "read"
    /\ last' = [last EXCEPT !.step = "call",
                            !.ret = read(hx, GoodRead(last.args[1]))]
    /\ UNCHANGED codecFrame

\* self.lookup[b & 0x55], the step of read()'s loop for one sampled byte
CallLookup ==
    /\ last.step = "input" /\ last.fn = "lookup"
    /\ last' = [last EXCEPT !.step = "call",
                            !.ret = Lookup[And55(last.args[1]) + 1]]
    /\ UNCHANGED codecFrame

CodecNext ==
    \/ CallRawToKg
    \/ CallWeightMeasurement
    \/ CallBatteryVoltage
    \/ CallAppVersion
    \/ CallProgressorId
    \/ CallRead
    \/ CallLookup

CodecSpec == CodecInit /\ [][CodecNext]_vars

-----------------------------------------------------------------------------
(* Properties.                                                             *)

\* the step just taken dispatched (or, for <<>>, read) this message
Dispatched(l, message) ==
    l.step = "gatt_events_task" /\ l.msg = <<message>>

\* the opcodes whose branch of process_control_command changes the device
\* or notifies
HandledOpcodes ==
    {CommandCode.TARE_SCALE, CommandCode.START_MEASUREMENT,
     CommandCode.STOP_MEASUREMENT, CommandCode.SHUTDOWN,
     CommandCode.SAMPLE_BATTERY, CommandCode.GET_PROGRESSOR_ID,
     CommandCode.GET_APP_VERSION}

\* C1: a step that dispatches SHUTDOWN leaves the status DISABLED and the
\* shutdown flag set; a step that dispatches START_MEASUREMENT while the
\* flag is set leaves the status as it was; the status is never ENABLED
\* while the flag is set; and the only step that clears the flag is the
\* advertise loop accepting a connection.
C1_ShutdownSuppressesStart ==
    [][/\ Dispatched(last', <<CommandCode.SHUTDOWN>>)
          => measurement_status' = STATUS_DISABLED /\ shutdown_requested'
       /\ (shutdown_requested
           /\ Dispatched(last', <<CommandCode.START_MEASUREMENT>>))
          => measurement_status' = measurement_status /\ shutdown_requested'
       /\ shutdown_requested' => measurement_status' # STATUS_ENABLED
       /\ (shutdown_requested /\ ~shutdown_requested')
          => last'.step = "accept" /\ connected_device' = Connection]_vars

\* a START_MEASUREMENT was dispatched while the shutdown flag was set
C1_Witness ==
    /\ Dispatched(last, <<CommandCode.START_MEASUREMENT>>)
    /\ shutdown_requested
    /\ measurement_status = STATUS_DISABLED

\* C2: in every reachable state, a status of ENABLED implies a connection
\* handle and a clear shutdown flag.
C2_EnabledImpliesConnected ==
    measurement_status = STATUS_ENABLED
        => connected_device # None /\ ~shutdown_requested

\* C3: a step in which a notify raised leaves the connection handle empty
\* and the status DISABLED, in send_weight_measurement and in
\* send_data_point alike.
C3_NotifyFailureDisconnects ==
    last.failed
        => connected_device = None /\ measurement_status = STATUS_DISABLED

\* C4: while the device runs, a notify failure that cleared the connection
\* handle is followed by the advertise loop advertising again.
C4_FailureLeadsToAdvertising ==
    (last.failed /\ pcMain = "gather")
        ~> (pcAdv = "advertising" \/ pcMain # "gather")

\* C5: when stop() has completed the HX711 is powered down.
C5_StoppedIsPoweredDown ==
    pcMain = "stopped" => hx.is_powered_down

\* C6 (amended): a set_gain that accepts its gain selects the 25-pulse
\* pattern for 128, the 27-pulse pattern for 64 and the 26-pulse pattern for
\* 32, and the three patterns are pairwise distinct.
C6_GainSelectsPattern ==
    /\ (drv.op = "set_gain" /\ drv.exc # "ValueError:gain")
       => /\ drv.gain \in {128, 64, 32}
          /\ drv.gain = 128 => hx.clock = clock_25 /\ PulseCount(hx.clock) = 25
          /\ drv.gain = 64 => hx.clock = clock_27 /\ PulseCount(hx.clock) = 27
          /\ drv.gain = 32 => hx.clock = clock_26 /\ PulseCount(hx.clock) = 26
    /\ Cardinality({ClockOfGain(g) : g \in {128, 64, 32}}) = 3

\* set_gain(64) returned and the 27-pulse pattern is selected
C6_Witness ==
    /\ drv.op = "set_gain" /\ drv.gain = 64 /\ drv.exc = "none"
    /\ drv.pre.clock = clock_25
    /\ PulseCount(hx.clock) = 27

\* C6 as claimed: 128 selects 25 pulses, 64 selects 26 and 32 selects 27.
C6_AsClaimed ==
    (drv.op = "set_gain" /\ drv.exc # "ValueError:gain")
    => /\ drv.gain = 128 => PulseCount(hx.clock) = 25
       /\ drv.gain = 64 => PulseCount(hx.clock) = 26
       /\ drv.gain = 32 => PulseCount(hx.clock) = 27

\* C7 (amended): set_gain with a gain other than 32, 64 and 128 raises the
\* ValueError and leaves the selected pattern as it was.  Called on a
\* powered-up driver it changes nothing, polls nothing and transfers
\* nothing; called on a powered-down driver it has powered the driver up
\* first (one pin write), with the polls of power_up's dummy read.
C7_InvalidGainKeepsPattern ==
    (drv.op = "set_gain" /\ drv.gain \notin {128, 64, 32})
    => /\ drv.exc = "ValueError:gain"
       /\ hx.clock = drv.pre.clock
       /\ hx.filtered = drv.pre.filtered
       /\ ~drv.pre.is_powered_down
          => hx = drv.pre /\ drv.polls = 0 /\ drv.xfers = 0 /\ drv.pins = 0
       /\ drv.pre.is_powered_down
          => /\ ~hx.is_powered_down /\ hx.clock_pin = 0 /\ drv.pins = 1
             /\ drv.polls >= 1 /\ drv.xfers <= 1

\* set_gain with an invalid gain on a powered-down driver made a transfer
C7_Witness ==
    /\ drv.op = "set_gain" /\ drv.gain \notin {128, 64, 32}
    /\ drv.exc = "ValueError:gain"
    /\ drv.pre.is_powered_down
    /\ drv.xfers = 1

\* C7 as claimed: the failing set_gain performs no sensor read.
C7_AsClaimed ==
    (drv.op = "set_gain" /\ drv.gain \notin {128, 64, 32})
    => /\ drv.exc = "ValueError:gain"
       /\ hx.clock = drv.pre.clock
       /\ drv.polls = 0 /\ drv.xfers = 0

\* C8 (amended): a step of the command loop that reads an empty write
\* dispatches nothing: the connection handle, the status, the start time,
\* the tare offset and the shutdown flag are unchanged and nothing is
\* notified.
C8_EmptyWriteIgnored ==
    [][Dispatched(last', <<>>)
       => /\ UNCHANGED devFields
          /\ last'.sent = "none" /\ ~last'.failed
          /\ control_point' = <<>>]_vars

\* an empty write was read while connected and measuring, and both stand
C8_Witness ==
    /\ Dispatched(last, <<>>)
    /\ connected_device = Connection
    /\ measurement_status = STATUS_ENABLED

\* C8 as claimed: after an empty write the connection handle is cleared and
\* the status is DISABLED.
C8_AsClaimed ==
    Dispatched(last, <<>>)
        => connected_device = None /\ measurement_status = STATUS_DISABLED

\* C9: a step that dispatches an opcode outside the handled set (0x72, 0x73,
\* 0x74 and an opcode unknown to the device) leaves the status, the
\* shutdown flag, the tare offset, the start time and the connection handle
\* unchanged and notifies nothing.
C9_UnhandledOpcodeNoEffect ==
    [][(/\ last'.step = "gatt_events_task"
        /\ last'.msg # <<>>
        /\ last'.msg[1] # <<>>
        /\ last'.msg[1][1] \notin HandledOpcodes)
       => /\ UNCHANGED devFields
          /\ last'.sent = "none" /\ ~last'.failed]_vars

\* ADD_CALIBRATION_POINT was dispatched while connected and measuring
C9_Witness ==
    /\ Dispatched(last, <<CommandCode.ADD_CALIBRATION_POINT>>)
    /\ connected_device = Connection
    /\ measurement_status = STATUS_ENABLED
    /\ start_time # 0

\* C10: a tick of the measurement loop that starts with the status TARE ends
\* with the status DISABLED; the tare offset is the median of the samples
\* read if the shutdown flag is clear and every read succeeded, and is
\* unchanged otherwise.
C10_TareTick ==
    [][(last'.step = "measurement_task" /\ measurement_status = STATUS_TARE)
       => /\ measurement_status' = STATUS_DISABLED
          /\ IF last'.tare = "ok"
             THEN /\ ~shutdown_requested
                  /\ Len(last'.values) = tare_samples_amount
                  /\ tare_offset' = get_median_value(last'.values)
             ELSE tare_offset' = tare_offset
          /\ shutdown_requested => last'.tare = "none"
          /\ ~shutdown_requested => last'.tare \in {"ok", "failed"}]_vars

\* a tare tick replaced the offset by the median of its ten samples
C10_Witness ==
    /\ last.step = "measurement_task" /\ last.tare = "ok"
    /\ measurement_status = STATUS_DISABLED
    /\ tare_offset = get_median_value(last.values)
    /\ tare_offset = 4

\* C11: a step that dispatches DEFAULT_CALIBRATION (0x74) leaves the status
\* DEFAULT_CALIBRATION.
C11_DefaultCalibrationDispatch ==
    Dispatched(last, <<CommandCode.DEFAULT_CALIBRATION>>)
        => measurement_status = STATUS_DEFAULT_CALIBRATION

\* C12: the device holds one connection at a time.  The advertise loop
\* accepts a connection only in a state with no connection handle and no
\* link; only that step sets the handle; and while the handle is set the
\* advertise loop is in the body of the connection it accepted.
C12_SingleConnection ==
    [][/\ last'.step = "accept"
          => /\ connected_device = None /\ ~link /\ pcAdv = "advertising"
             /\ connected_device' = Connection /\ link'
       /\ (connected_device = None /\ connected_device' # None)
          => last'.step = "accept"
       /\ link' /\ ~link => last'.step = "accept"
       /\ connected_device' # None => pcAdv' = "connected"]_vars

\* a connection is accepted after an earlier one was released: the write of
\* the earlier central is still unread
C12_Witness ==
    /\ last.step = "accept"
    /\ connected_device = Connection /\ link
    /\ control_point # <<>>

\* the calls of the codec that build a data point
CodecCalls ==
    {"weight_measurement", "battery_voltage", "app_version", "progressor_id"}

Abs(x) == IF x < 0 THEN -x ELSE x

\* C13: raw_to_kg returns 0.0 or a value above 0.5, never a negative one or
\* one in (0, 0.5].  It returns 0.0 when raw_value equals the tare offset,
\* whatever slope and intercept are (a slope of 0 included); a value above
\* 0.5 it returns is a hundredth nearest to (raw - tare - intercept) /
\* slope; it returns 0.0 only for a quotient of at most 0.505, and a value
\* above 0.5 for every quotient above 0.505 (0.51 is returned as 0.51).
C13_RawToKgDeadband ==
    (last.step = "call" /\ last.fn = "raw_to_kg")
        => LET a == last.args
               r == last.ret
               num == IF a.slope >= 0
                      THEN a.raw_value - a.offset - a.intercept
                      ELSE a.offset + a.intercept - a.raw_value
               den == 2 * Abs(a.slope)
           IN  /\ r.exc = "none" => r.ret = 0 \/ r.ret > 50
               /\ a.raw_value = a.offset => r.exc = "none" /\ r.ret = 0
               /\ (a.raw_value # a.offset /\ a.slope = 0)
                  => r.exc = "ZeroDivisionError"
               /\ (a.raw_value # a.offset /\ a.slope # 0)
                  => /\ r.exc = "none"
                     /\ r.ret > 50 => 2 * Abs(100 * num - r.ret * den) <= den
                     /\ r.ret = 0 => 1000 * num <= 505 * den
                     /\ 1000 * num > 505 * den => r.ret > 50
                     /\ 100 * num = 51 * den => r.ret = 51

\* raw_to_kg computed exactly 0.51 and returned it
C13_Witness ==
    /\ last.step = "call" /\ last.fn = "raw_to_kg"
    /\ last.args.raw_value # last.args.offset
    /\ 100 * (last.args.raw_value - last.args.offset - last.args.intercept)
           = 51 * 2 * last.args.slope
    /\ last.ret.exc = "none" /\ last.ret.ret = 51

\* C14: every data point the codec builds has a length of at most 10, and
\* its encoding is response_code, length and the first length bytes of
\* value: 2 + length bytes (10 for a weight measurement).
C14_PayloadShape ==
    (last.step = "call" /\ last.fn \in CodecCalls)
        => LET dp == last.ret.dp
               gatt == last.ret.gatt
           IN  /\ dp.length <= MAX_PAYLOAD_SIZE
               /\ gatt.exc = "none"
               /\ gatt.bytes = <<dp.response_code, dp.length>>
                                   \o SubSeq(dp.value, 1, dp.length)
               /\ Len(gatt.bytes) = 2 + dp.length
               /\ last.fn = "weight_measurement" => Len(gatt.bytes) = 10

\* C15: progressor_id(id) has response code 0x00 and length 6, and its six
\* payload bytes are the bytes of id, cut or zero-padded to six, reversed.
C15_ProgressorIdBytes ==
    (last.step = "call" /\ last.fn = "progressor_id")
        => LET dp == last.ret.dp
               id == encode(last.args[1])
           IN  /\ dp.response_code = 0
               /\ dp.length = 6
               /\ SubSeq(dp.value, 1, 6) = reversed(Prefix(ljust(id, 6), 6))

\* C16: read() on a powered-down driver raises the powered-down OSError
\* without a poll of the data pin or a transfer, and leaves the driver as it
\* was.  No call that transfers leaves the driver marked powered down, and
\* safe_read never raises the powered-down error.
C16_PoweredDownReadRefused ==
    /\ (drv.op = "read" /\ drv.pre.is_powered_down)
       => /\ drv.exc = "OSError:powered_down"
          /\ drv.polls = 0 /\ drv.xfers = 0 /\ drv.pins = 0
          /\ hx = drv.pre
    /\ (drv.op = "read" /\ drv.exc = "OSError:powered_down")
       => drv.pre.is_powered_down
    /\ drv.xfers > 0 => ~hx.is_powered_down
    /\ drv.op = "safe_read" => drv.exc # "OSError:powered_down"

\* read() was called on a powered-down driver
C16_Witness ==
    /\ drv.op = "read" /\ drv.pre.is_powered_down
    /\ drv.exc = "OSError:powered_down"
    /\ hx.is_powered_down

\* C17: power_down() on a powered-down driver and power_up() on a
\* powered-up driver change nothing and drive no pin; power_up() on a
\* powered-down driver returns with the driver marked active, whether its
\* dummy read succeeds or not.
C17_PowerIdempotent ==
    /\ (drv.op = "power_down" /\ drv.pre.is_powered_down)
       => /\ hx = drv.pre /\ drv.exc = "none"
          /\ drv.pins = 0 /\ drv.polls = 0 /\ drv.xfers = 0
    /\ (drv.op = "power_up" /\ ~drv.pre.is_powered_down)
       => /\ hx = drv.pre /\ drv.exc = "none"
          /\ drv.pins = 0 /\ drv.polls = 0 /\ drv.xfers = 0
    /\ (drv.op = "power_up" /\ drv.pre.is_powered_down)
       => /\ ~hx.is_powered_down /\ hx.clock_pin = 0
          /\ drv.exc = "none" /\ drv.pins = 1
    /\ (drv.op = "power_down" /\ ~drv.pre.is_powered_down)
       => hx.is_powered_down /\ hx.clock_pin = 1 /\ drv.pins = 1

\* power_up() woke a powered-down driver and its dummy read timed out
C17_Witness ==
    /\ drv.op = "power_up" /\ drv.pre.is_powered_down
    /\ drv.polls = PollLimit /\ drv.xfers = 0
    /\ ~hx.is_powered_down

\* C18: read() on a powered-up driver polls the data pin between 1 and 500
\* times and then either transfers once and returns, or, after 500 polls
\* that all found the pin high, raises the timeout OSError without a
\* transfer.
C18_ReadPollsBounded ==
    (drv.op = "read" /\ ~drv.pre.is_powered_down)
        => /\ drv.polls \in 1..PollLimit
           /\ drv.exc \in {"none", "OSError:timeout"}
           /\ drv.exc = "none" => drv.xfers = 1
           /\ drv.exc = "OSError:timeout"
              => drv.xfers = 0 /\ drv.polls = PollLimit
           /\ hx = drv.pre

\* a read() found the pin low at its last poll, the 500th, and transferred
C18_Witness ==
    /\ drv.op = "read" /\ ~drv.pre.is_powered_down
    /\ drv.polls = PollLimit /\ drv.exc = "none" /\ drv.xfers = 1

\* the step just taken dispatched an opcode to process_control_command
DispatchedCommand(l) ==
    l.step = "gatt_events_task" /\ l.msg # <<>> /\ l.msg[1] # <<>>

\* C19: no control command is dispatched while the connection handle is
\* empty.
C19_DispatchOnlyWhenConnected ==
    [][DispatchedCommand(last') => connected_device # None]_vars

\* C20: a weight measurement is notified only by a step of the measurement
\* loop that starts with the status ENABLED, a connection handle and a clear
\* shutdown flag; the notification leaves all three as they were.
C20_WeightOnlyWhenEnabled ==
    [][last'.sent = "weight_measurement"
       => /\ last'.step = "measurement_task"
          /\ measurement_status = STATUS_ENABLED
          /\ connected_device # None
          /\ ~shutdown_requested
          /\ UNCHANGED devFields]_vars

\* a weight measurement was notified
C20_Witness ==
    /\ last.step = "measurement_task" /\ last.sent = "weight_measurement"
    /\ measurement_status = STATUS_ENABLED
    /\ connected_device = Connection
    /\ ~shutdown_requested

\* C21: the step of the advertise loop that accepts a connection stores the
\* connection handle and clears the shutdown flag together; every step in
\* which the advertise loop leaves the body of a connection (the link is
\* lost, or the loop is cancelled while connected) ends with the handle
\* empty, the status DISABLED and the start time 0.  No state has the
\* handle just accepted with the flag of the session before.
C21_ConnectAndDisconnectAtomic ==
    [][/\ last'.step = "accept"
          => /\ pcAdv = "advertising" /\ pcAdv' = "connected"
             /\ connected_device' = Connection
             /\ ~shutdown_requested'
             /\ UNCHANGED <<measurement_status, start_time, tare_offset>>
       /\ (pcAdv = "connected" /\ pcAdv' # "connected")
          => /\ last'.step \in {"disconnected", "advertise_cancelled"}
             /\ connected_device' = None
             /\ measurement_status' = STATUS_DISABLED
             /\ start_time' = 0
             /\ UNCHANGED <<tare_offset, shutdown_requested>>
       /\ last'.step = "disconnected" => pcAdv = "connected"]_vars

\* the advertise loop was cancelled while connected, during stop()'s
\* disconnect, and released the connection
C21_Witness ==
    /\ last.step = "advertise_cancelled"
    /\ pcMain = "disconnecting"
    /\ pcAdv = "done"
    /\ connected_device = None
    /\ measurement_status = STATUS_DISABLED
    /\ ~link

\* C22: a tick of the measurement loop that starts with the status ENABLED,
\* a connection handle and a clear shutdown flag, and in which the read of
\* the sensor raises (the tick notifies nothing and no notify raised),
\* leaves the status, the connection handle, the shutdown flag, the tare
\* offset and the start time unchanged, and the loop goes on to its sleep
\* with the device still running.
C22_ReadFailureContained ==
    [][(/\ last'.step = "measurement_task"
        /\ measurement_status = STATUS_ENABLED
        /\ connected_device # None
        /\ ~shutdown_requested
        /\ last'.sent = "none" /\ ~last'.failed)
       => /\ UNCHANGED devFields
          /\ pcMeas' = "loop"
          /\ UNCHANGED <<is_running, link, control_point, cancelled, pcAdv,
                         pcGatt, pcMain>>]_vars

\* a tick of an enabled, connected measurement notified nothing: its read
\* failed, and the measurement is still enabled
C22_Witness ==
    /\ last.step = "measurement_task"
    /\ last.sent = "none" /\ ~last.failed /\ last.tare = "none"
    /\ measurement_status = STATUS_ENABLED
    /\ connected_device = Connection
    /\ ~shutdown_requested
    /\ pcMeas = "loop" /\ is_running

\* C23: once stop() has cleared the running signal (with or without a
\* cancellation of the tasks), the advertise loop, the measurement loop and
\* the command loop all eventually exit, wherever they were suspended.
C23_LoopsExit ==
    (last.step = "stop")
        ~> (pcAdv = "done" /\ pcMeas = "done" /\ pcGatt = "done")

\* C24: the lookup table maps b & 0x55, for every byte b, to the nibble made
\* of bits 6, 4, 2 and 0 of b; read() returns, for every sampled buffer,
\* the 24-bit word made of the nibbles of its first six bytes, the first
\* byte's nibble the most significant, read as a two's-complement number;
\* the value is within -8388608..8388607 and the seventh byte has no part
\* in it.
C24_ReadDecodes ==
    /\ (last.step = "call" /\ last.fn = "lookup")
       => LET b == last.args[1]
          IN  last.ret = 8 * Bit(b, 6) + 4 * Bit(b, 4) + 2 * Bit(b, 2)
                         + Bit(b, 0)
    /\ (last.step = "call" /\ last.fn = "read")
       => LET in_data == last.args[1]
              nibble(i) == 8 * Bit(in_data[i], 6) + 4 * Bit(in_data[i], 4)
                           + 2 * Bit(in_data[i], 2) + Bit(in_data[i], 0)
              word == 1048576 * nibble(1) + 65536 * nibble(2)
                      + 4096 * nibble(3) + 256 * nibble(4)
                      + 16 * nibble(5) + nibble(6)
          IN  /\ last.ret.exc = "none"
              /\ last.ret.ret = IF word >= 8388608 THEN word - 16777216
                                ELSE word
              /\ last.ret.ret \in -8388608..8388607

\* read() decoded a buffer with clock-phase bits set to a negative value:
\* 0xF2092F as -915153
C24_Witness ==
    /\ last.step = "call" /\ last.fn = "read"
    /\ last.args[1] = <<255, 174, 0, 65, 174, 255, 255>>
    /\ last.ret.exc = "none"
    /\ last.ret.ret = -915153

\* C25: in every reachable state the status is DISABLED, ENABLED or TARE;
\* CALIBRATION and DEFAULT_CALIBRATION are never reached.
C25_StatusNeverCalibration ==
    /\ measurement_status \in {STATUS_DISABLED, STATUS_ENABLED, STATUS_TARE}
    /\ measurement_status \notin {STATUS_CALIBRATION,
                                  STATUS_DEFAULT_CALIBRATION}

\* DEFAULT_CALIBRATION was dispatched while a tare was pending, and the
\* tare is still pending
C25_Witness ==
    /\ Dispatched(last, <<CommandCode.DEFAULT_CALIBRATION>>)
    /\ connected_device = Connection
    /\ measurement_status = STATUS_TARE

\* C26: a step that dispatches TARE_SCALE leaves the status TARE, also when
\* it was ENABLED; the tick of the measurement loop that finds the status
\* TARE leaves it DISABLED and notifies no weight; a weight is notified only
\* by a step that starts with the status ENABLED; and the status becomes
\* ENABLED only in a step that dispatches START_MEASUREMENT.  So after the
\* tare tick no weight is notified before a new START_MEASUREMENT.
C26_TareEndsMeasurement ==
    [][/\ Dispatched(last', <<CommandCode.TARE_SCALE>>)
          => measurement_status' = STATUS_TARE
       /\ (last'.step = "measurement_task"
           /\ measurement_status = STATUS_TARE)
          => /\ measurement_status' = STATUS_DISABLED
             /\ last'.sent = "none"
       /\ last'.sent = "weight_measurement"
          => measurement_status = STATUS_ENABLED
       /\ (measurement_status # STATUS_ENABLED
           /\ measurement_status' = STATUS_ENABLED)
          => Dispatched(last', <<CommandCode.START_MEASUREMENT>>)]_vars

\* a tare tick ended a measurement that was started and not stopped: the
\* start time of the measurement still stands
C26_Witness ==
    /\ last.step = "measurement_task" /\ last.tare = "ok"
    /\ measurement_status = STATUS_DISABLED
    /\ connected_device = Connection
    /\ start_time # 0

=============================================================================
